---------------------------- MODULE Spec2Model ----------------------------
(***************************************************************************)
(* Model of the WebSub notification pipeline of the YouTube monitoring     *)
(* system: the webhook endpoints (src/api/webhook.py), the feed parser     *)
(* (src/youtube/websub_handler.py), the ingestion task and the storage     *)
(* client with its two backends (src/database/mongodb_client.py,           *)
(* src/database/json_storage.py).                                          *)
(*                                                                         *)
(* Text is modelled as a sequence of one-character strings (or, for feed   *)
(* bodies, of markup tokens), so that conversions such as int(), str       *)
(* replace and the regular-expression searches are computed, not assumed.  *)
(* Python's None is the sentinel None below, which no text value equals.   *)
(***************************************************************************)
EXTENDS Integers, Sequences, FiniteSets, Bags, TLC

VARIABLES
    settings,           \* get_settings(): webhook_verify_token, webhook_secret
    request,            \* the HTTP request just answered (NoRequest after any other step)
    response,           \* the response (or error) the handler produced for it
    tasks,              \* BackgroundTasks: the bag of notification jobs not yet ended
    client,             \* db_client of the web process (MongoDBClient singleton)
    batch_client,       \* db_client of the initial_data_ingestion process
    mongo_videos,       \* the "videos" collection on the MongoDB server
    json_videos,        \* data/videos.json
    json_io,            \* per process: a JSONStorage.insert_video between load and save
    logged,             \* the outcome the last step logged (NoLog: none)
    stored_ids,         \* history: ids whose notification ended "stored"
    parsed,             \* a parse_atom_feed call: its argument and its result
    websub              \* a WebSubHandler subscription call: its progress and result

storage == <<client, batch_client, mongo_videos, json_videos, json_io>>

vars == <<settings, request, response, tasks, client, batch_client,
          mongo_videos, json_videos, json_io, logged, stored_ids,
          parsed, websub>>

-----------------------------------------------------------------------------
(* Bounds of the model *)

MaxChallengeLen == 3
MaxTasks == 2
MaxFeedParts == 3

-----------------------------------------------------------------------------
(* Text helpers *)

None == <<"<None>">>

\* Optional[Dict]: None where a dict is expected.
NoneDict == [is_none |-> TRUE]

Digits == <<"0", "1", "2", "3", "4", "5", "6", "7", "8", "9">>

IsDigit(c) == \E i \in 1..Len(Digits) : Digits[i] = c

DigitValue(c) == (CHOOSE i \in 1..Len(Digits) : Digits[i] = c) - 1

\* All sequences over alphabet S of length at most n.
SeqsUpTo(S, n) == UNION {[1..k -> S] : k \in 0..n}

-----------------------------------------------------------------------------
(* GET /webhook/youtube : youtube_webhook_verification *)

\* int(hub_challenge): None raises TypeError, text that is not a decimal
\* literal raises ValueError; otherwise the value of the digits.
PyIntRaises(s) ==
    \/ s = None
    \/ s = <<>>
    \/ \E i \in 1..Len(s) : ~IsDigit(s[i])

RECURSIVE PyInt(_)
PyInt(s) ==
    IF s = <<>> THEN 0
    ELSE 10 * PyInt(SubSeq(s, 1, Len(s) - 1)) + DigitValue(s[Len(s)])

\* The JSON rendering of an integer response value (decimal, no leading zeros).
RECURSIVE IntToText(_)
IntToText(n) ==
    IF n < 10 THEN <<Digits[n + 1]>>
    ELSE IntToText(n \div 10) \o <<Digits[(n % 10) + 1]>>

\* What a step wrote to the log, with the facts of the call it closes.
\* raced: the task passed the lookup before another notification stored
\* the same video_id.
\* A task's line carries the task; an insert_video call's facts are:
\* present (the video_id was in the store when the call began), path (what
\* the call met: "inserted", "duplicate", "error"), unchanged (the call left
\* the store as it was) and result (the value it returned).
NoLog == [kind |-> "none"]
NoCall == [path |-> "none"]
InsertCall(present, path, unchanged, result) ==
    [present |-> present, path |-> path, unchanged |-> unchanged,
     result |-> result]
TaskLog(task, outcome, call) ==
    [kind |-> "notification", task |-> task, outcome |-> outcome, insert |-> call,
     raced |-> ~task.repeat /\ task.video_id \in stored_ids]
BatchLog(video_data, call) ==
    [kind |-> "batch", video_data |-> video_data, insert |-> call]

\* The web process runs one coroutine at a time: while a synchronous
\* JSONStorage.insert_video call is between its load and its save, nothing
\* else in that process runs.
NoIo == [active |-> FALSE]
WebIdle == json_io["web"] = NoIo

HttpError(code, detail) == [status |-> code, body |-> <<detail>>]

\* Mutation of VerificationResponse: the verify token is not compared.
VerificationResponseNoToken(hub_mode, hub_challenge, hub_verify_token) ==
    IF hub_mode = <<"subscribe">>
    THEN IF PyIntRaises(hub_challenge)
         THEN HttpError(500, "Internal Server Error")
         ELSE [status |-> 200, body |-> IntToText(PyInt(hub_challenge))]
    ELSE IF hub_mode = <<"unsubscribe">>
         THEN [status |-> 200, body |-> <<"Unsubscribed">>]
         ELSE HttpError(400, "Invalid request mode")

\* Mutation of VerificationResponse: every mode but subscribe is acknowledged.
VerificationResponseAnyMode(hub_mode, hub_challenge, hub_verify_token) ==
    IF hub_mode = <<"subscribe">>
    THEN IF hub_verify_token # settings.webhook_verify_token
         THEN HttpError(403, "Verification token mismatch")
         ELSE IF PyIntRaises(hub_challenge)
              THEN HttpError(500, "Internal Server Error")
              ELSE [status |-> 200, body |-> IntToText(PyInt(hub_challenge))]
    ELSE [status |-> 200, body |-> <<"Unsubscribed">>]

\* GET /webhook/youtube: the response for the query parameters.
VerificationResponse(hub_mode, hub_challenge, hub_verify_token) ==
    IF hub_mode = <<"subscribe">>
    THEN IF hub_verify_token # settings.webhook_verify_token
         THEN HttpError(403, "Verification token mismatch")
         ELSE IF PyIntRaises(hub_challenge)
              THEN HttpError(500, "Internal Server Error")
              ELSE [status |-> 200, body |-> IntToText(PyInt(hub_challenge))]
    ELSE IF hub_mode = <<"unsubscribe">>
         THEN [status |-> 200, body |-> <<"Unsubscribed">>]
         ELSE HttpError(400, "Invalid request mode")

youtube_webhook_verification(hub_mode, hub_challenge, hub_verify_token) ==
    /\ WebIdle
    /\ request' = [method |-> "GET", mode |-> hub_mode,
                   challenge |-> hub_challenge, token |-> hub_verify_token]
    /\ response' = VerificationResponse(hub_mode, hub_challenge, hub_verify_token)
    /\ logged' = NoLog
    /\ UNCHANGED <<settings, parsed, websub, tasks, storage, stored_ids>>

\* Inputs of the handshake: query parameters may be absent (None).
Modes == {<<"subscribe">>, <<"unsubscribe">>, <<"publish">>, None}
Tokens == {<<"youtube_verify_token">>, <<"wrong_token">>}
ChallengeChars == {"0", "1", "x"}
Challenges == SeqsUpTo(ChallengeChars, MaxChallengeLen) \cup {None}

NoRequest == [method |-> "none"]
NoResponse == [status |-> 0, body |-> <<>>]

\* No parse_atom_feed call under way, no subscription call under way.
NoParse == [pc |-> "none"]
NoRun == [pc |-> "idle"]

-----------------------------------------------------------------------------
(* POST /webhook/youtube : youtube_webhook_notification *)

\* A request body is a sequence of tokens: Atom markup, text, a line break,
\* or BadByte, a byte that is not valid UTF-8.
BadByte == "0xFF"
NonAsciiChar == "U+00E9"

\* bytes.decode() raises UnicodeDecodeError on a body that is not UTF-8.
DecodeRaises(body) == \E i \in 1..Len(body) : body[i] = BadByte

TokenCode(tok) ==
    CASE tok = "<entry>" -> 1
      [] tok = "<yt:videoId>" -> 2
      [] tok = "</yt:videoId>" -> 3
      [] tok = "<yt:channelId>" -> 4
      [] tok = "</yt:channelId>" -> 5
      [] tok = "<title>" -> 6
      [] tok = "</title>" -> 7
      [] tok = "v1" -> 8
      [] tok = "v2" -> 9
      [] tok = "UCxyz" -> 10
      [] tok = "My Video" -> 11
      [] tok = "\n" -> 12
      [] tok = BadByte -> 13
      [] tok = "youtube_webhook_secret" -> 14
      [] tok = "other_secret" -> 15
      [] OTHER -> 16

RECURSIVE Checksum(_)
Checksum(s) ==
    IF s = <<>> THEN 0
    ELSE (Checksum(SubSeq(s, 1, Len(s) - 1)) * 17 + TokenCode(s[Len(s)])) % 256

HexChars == <<"0", "1", "2", "3", "4", "5", "6", "7",
              "8", "9", "a", "b", "c", "d", "e", "f">>

\* hmac.new(key, msg, sha1).hexdigest(): a keyed digest of the raw body in
\* lowercase hex.  The model keeps two hex characters of it.
HexDigest(key, msg) ==
    LET n == (Checksum(key) * 31 + Checksum(msg) + 7) % 256
    IN  <<HexChars[(n \div 16) + 1], HexChars[(n % 16) + 1]>>

Sha1Prefix == <<"s", "h", "a", "1", "=">>

StartsWith(s, p) == Len(s) >= Len(p) /\ SubSeq(s, 1, Len(p)) = p

\* str.replace(old, ''): every non-overlapping occurrence of old, found left
\* to right, is removed.
RECURSIVE StrRemove(_, _)
StrRemove(s, old) ==
    IF Len(s) < Len(old) THEN s
    ELSE IF StartsWith(s, old)
         THEN StrRemove(SubSeq(s, Len(old) + 1, Len(s)), old)
         ELSE <<s[1]>> \o StrRemove(Tail(s), old)

\* hmac.compare_digest on two str raises TypeError unless both are ASCII.
CompareDigestRaises(a, b) ==
    \/ \E i \in 1..Len(a) : a[i] = NonAsciiChar
    \/ \E i \in 1..Len(b) : b[i] = NonAsciiChar

\* Python truthiness of an Optional[str].
Truthy(s) == s # None /\ s # <<>>

\* Mutant of NewTask: the handler awaits the job up to its extractor call.
NewTaskAwaited(notification_body) ==
    [pc |-> "extracting", body |-> notification_body, video_id |-> <<"v1">>,
     extract_calls |-> 1, insert_calls |-> 0, enriched |-> FALSE,
     inserted |-> NoneDict, repeat |-> FALSE]

\* background_tasks.add_task(process_youtube_notification, body_text)
NewTask(notification_body) ==
    [pc |-> "queued", body |-> notification_body, video_id |-> None,
     extract_calls |-> 0, insert_calls |-> 0, enriched |-> FALSE,
     inserted |-> NoneDict, repeat |-> FALSE]

\* The handler's verdict on a request: "decode_error", "signature_error",
\* "forbidden" or "accepted".
NotificationVerdict(body, x_hub_signature) ==
    IF DecodeRaises(body) THEN "decode_error"
    ELSE IF Truthy(settings.webhook_secret) /\ Truthy(x_hub_signature)
         THEN LET signature == StrRemove(x_hub_signature, Sha1Prefix)
                  expected_signature == HexDigest(settings.webhook_secret, body)
              IN  IF CompareDigestRaises(signature, expected_signature)
                  THEN "signature_error"
                  ELSE IF signature # expected_signature
                       THEN "forbidden"
                       ELSE "accepted"
         ELSE "accepted"

\* Mutant of youtube_webhook_notification: the job is enqueued before the
\* signature is checked.
youtube_webhook_notification_enqueue_first(body, x_hub_signature) ==
    LET verdict == NotificationVerdict(body, x_hub_signature)
    IN  /\ WebIdle
        /\ BagCardinality(tasks) < MaxTasks
        /\ request' = [method |-> "POST", body |-> body,
                       signature |-> x_hub_signature]
        /\ response' =
              CASE verdict = "accepted" -> [status |-> 200, body |-> <<"processing">>]
                [] verdict = "forbidden" -> HttpError(403, "Invalid signature")
                [] OTHER -> HttpError(500, "Internal Server Error")
        /\ tasks' = tasks (+) SetToBag({NewTask(body)})
        /\ logged' = NoLog
        /\ UNCHANGED <<settings, parsed, websub, storage, stored_ids>>

youtube_webhook_notification(body, x_hub_signature) ==
    LET verdict == NotificationVerdict(body, x_hub_signature)
    IN  /\ WebIdle
        /\ verdict = "accepted" => BagCardinality(tasks) < MaxTasks
        /\ request' = [method |-> "POST", body |-> body,
                       signature |-> x_hub_signature]
        /\ response' =
              CASE verdict = "accepted" -> [status |-> 200, body |-> <<"processing">>]
                [] verdict = "forbidden" -> HttpError(403, "Invalid signature")
                [] OTHER -> HttpError(500, "Internal Server Error")
        /\ tasks' = IF verdict = "accepted"
                    THEN tasks (+) SetToBag({NewTask(body)})
                    ELSE tasks
        /\ logged' = NoLog
        /\ UNCHANGED <<settings, parsed, websub, storage, stored_ids>>

\* Inputs of the notification endpoint.
WellFormedFeed(v) ==
    <<"<entry>", "<yt:videoId>", v, "</yt:videoId>",
      "<yt:channelId>", "UCxyz", "</yt:channelId>",
      "<title>", "My Video", "</title>">>

NoChannelFeed(v) ==
    <<"<entry>", "<yt:videoId>", v, "</yt:videoId>",
      "<title>", "My Video", "</title>">>

PostBodies ==
    {WellFormedFeed("v1"), WellFormedFeed("v2"), NoChannelFeed("v1"),
     <<>>, <<BadByte>>}

Secrets == {<<>>, <<"youtube_webhook_secret">>}
SigningKeys == {<<"youtube_webhook_secret">>, <<"other_secret">>}

\* The signature headers a sender holding key could attach to body, in the
\* shapes the handler has to tell apart; None is a request without the header.
SignatureHeaders(body) ==
    {None, <<>>, Sha1Prefix}
    \cup UNION {
        LET d == HexDigest(key, body)
        IN  {Sha1Prefix \o d,
             d,
             Sha1Prefix \o Sha1Prefix \o d,
             <<d[1]>> \o Sha1Prefix \o <<d[2]>>,
             <<"s", "h">> \o Sha1Prefix \o <<"a", "1", "=">> \o d,
             Sha1Prefix \o <<d[2], d[1]>>,
             Sha1Prefix \o d \o <<NonAsciiChar>>}
        : key \in SigningKeys}

-----------------------------------------------------------------------------
(* WebSubHandler.parse_atom_feed *)

Contains(s, tok) == \E i \in 1..Len(s) : s[i] = tok

\* The places where re.search(open + '(.*?)' + close) can match: open at i,
\* close at j, and no line break between them ('.' does not match one).
RegexSpans(s, open, close) ==
    {ij \in (1..Len(s)) \X (1..Len(s)) :
        /\ ij[1] < ij[2]
        /\ s[ij[1]] = open
        /\ s[ij[2]] = close
        /\ \A k \in (ij[1] + 1)..(ij[2] - 1) : s[k] # "\n"}

Min(S) == CHOOSE x \in S : \A y \in S : x <= y

\* group(1) of the leftmost match with the shortest group; None without a match.
RegexGroup(s, open, close) ==
    LET spans == RegexSpans(s, open, close)
    IN  IF spans = {} THEN None
        ELSE LET i == Min({ij[1] : ij \in spans})
                 j == Min({ij[2] : ij \in {x \in spans : x[1] = i}})
             IN  SubSeq(s, i + 1, j - 1)

WatchUrl(video_id) == <<"https://www.youtube.com/watch?v=">> \o video_id

\* Mutation of parse_atom_feed: the channel id is not required.
parse_atom_feed_video_only(feed_content) ==
    IF Contains(feed_content, "<entry>") /\ Contains(feed_content, "<yt:videoId>")
    THEN LET video_id == RegexGroup(feed_content, "<yt:videoId>", "</yt:videoId>")
             channel_id == RegexGroup(feed_content, "<yt:channelId>", "</yt:channelId>")
             title == RegexGroup(feed_content, "<title>", "</title>")
         IN  IF Truthy(video_id)
             THEN [video_id |-> video_id, channel_id |-> channel_id,
                   title |-> title, video_url |-> WatchUrl(video_id)]
             ELSE NoneDict
    ELSE NoneDict

parse_atom_feed(feed_content) ==
    IF Contains(feed_content, "<entry>") /\ Contains(feed_content, "<yt:videoId>")
    THEN LET video_id == RegexGroup(feed_content, "<yt:videoId>", "</yt:videoId>")
             channel_id == RegexGroup(feed_content, "<yt:channelId>", "</yt:channelId>")
             title == RegexGroup(feed_content, "<title>", "</title>")
         IN  IF Truthy(video_id) /\ Truthy(channel_id)
             THEN [video_id |-> video_id, channel_id |-> channel_id,
                   title |-> title, video_url |-> WatchUrl(video_id)]
             ELSE NoneDict
    ELSE NoneDict

-----------------------------------------------------------------------------
(* YouTubeDataExtractor.get_video_details *)

\* A key that the yt-dlp info dict does not hold.
Missing == <<"<missing>">>

\* dict.get(key, default)
Get(value, default) == IF value = Missing THEN default ELSE value

TimeSuffix == <<"T", "0", "0", ":", "0", "0", ":", "0", "0", "Z">>

\* info is the dict ydl.extract_info returned, or NoneDict when it raised.
get_video_details(video_url, info) ==
    IF info = NoneDict THEN NoneDict
    ELSE LET raw == Get(info.upload_date, <<>>)
             upload_date ==
                 IF Truthy(raw) /\ Len(raw) = 8
                 THEN SubSeq(raw, 1, 4) \o <<"-">> \o SubSeq(raw, 5, 6)
                        \o <<"-">> \o SubSeq(raw, 7, 8) \o TimeSuffix
                 ELSE raw
         IN  [video_id |-> Get(info.id, None),
              title |-> Get(info.title, <<"Unknown Title">>),
              url |-> video_url,
              upload_date |-> upload_date,
              view_count |-> info.view_count,
              like_count |-> info.like_count,
              channel_id |-> Get(info.channel_id, None),
              channel_title |-> Get(info.channel, <<"Unknown Channel">>),
              thumbnail_url |-> Get(info.thumbnail, None)]

-----------------------------------------------------------------------------
(* utils.helpers.parse_iso_date and the VideoMetadata model *)

IsDigits(s) == \A i \in 1..Len(s) : IsDigit(s[i])

IsLeap(y) == (y % 4 = 0 /\ y % 100 # 0) \/ y % 400 = 0

DaysIn(y, m) ==
    IF m = 2 THEN (IF IsLeap(y) THEN 29 ELSE 28)
    ELSE IF m \in {4, 6, 9, 11} THEN 30 ELSE 31

CalendarOk(y, m, d) == y >= 1 /\ m \in 1..12 /\ d \in 1..DaysIn(y, m)

\* "%Y%m%d"
YmdPlain(s) ==
    /\ Len(s) = 8
    /\ IsDigits(s)
    /\ CalendarOk(PyInt(SubSeq(s, 1, 4)), PyInt(SubSeq(s, 5, 6)), PyInt(SubSeq(s, 7, 8)))

\* "%Y-%m-%d"
YmdDashed(s) ==
    /\ Len(s) = 10
    /\ s[5] = "-"
    /\ s[8] = "-"
    /\ YmdPlain(SubSeq(s, 1, 4) \o SubSeq(s, 6, 7) \o SubSeq(s, 9, 10))

\* "T%H:%M:%S"
ClockOk(s) ==
    /\ Len(s) = 9
    /\ s[1] = "T"
    /\ s[4] = ":"
    /\ s[7] = ":"
    /\ IsDigits(SubSeq(s, 2, 3) \o SubSeq(s, 5, 6) \o SubSeq(s, 8, 9))
    /\ PyInt(SubSeq(s, 2, 3)) < 24
    /\ PyInt(SubSeq(s, 5, 6)) < 60
    /\ PyInt(SubSeq(s, 8, 9)) < 62

\* parse_iso_date(v) is not None, for the zero-padded forms of the four
\* formats it tries in turn.
ParsesAsIsoDate(s) ==
    \/ /\ Len(s) \in 22..27
       /\ YmdDashed(SubSeq(s, 1, 10))
       /\ ClockOk(SubSeq(s, 11, 19))
       /\ s[20] = "."
       /\ IsDigits(SubSeq(s, 21, Len(s) - 1))
       /\ s[Len(s)] = "Z"
    \/ /\ Len(s) = 20
       /\ YmdDashed(SubSeq(s, 1, 10))
       /\ ClockOk(SubSeq(s, 11, 19))
       /\ s[20] = "Z"
    \/ YmdDashed(s)
    \/ YmdPlain(s)

\* ' '.join(v.split()) on a text whose whitespace is the token " ".
RECURSIVE CollapseSpaces(_, _)
CollapseSpaces(s, pending) ==
    IF s = <<>> THEN <<>>
    ELSE IF s[1] = " " THEN CollapseSpaces(Tail(s), TRUE)
         ELSE (IF pending THEN <<" ">> ELSE <<>>) \o <<s[1]>>
                \o CollapseSpaces(Tail(s), FALSE)

RECURSIVE LStrip(_)
LStrip(s) == IF s # <<>> /\ s[1] = " " THEN LStrip(Tail(s)) ELSE s

sanitize_text(v) == IF v # <<>> THEN CollapseSpaces(LStrip(v), FALSE) ELSE v

MaxTitleLength == 500

\* Mutant of ValidationRaises: the str fields are Optional.
ValidationRaisesOptionalFields(video_data) ==
    \/ Len(video_data.title) > MaxTitleLength
    \/ ~ParsesAsIsoDate(video_data.upload_date)
    \/ video_data.view_count < 0
    \/ video_data.like_count < 0

\* VideoMetadata(**video_data) raises ValidationError: a required str field is
\* None, the title is too long, a count is negative, or the upload date
\* does not parse.
ValidationRaises(video_data) ==
    \/ video_data.video_id = None
    \/ video_data.title = None
    \/ Len(video_data.title) > MaxTitleLength
    \/ video_data.url = None
    \/ video_data.upload_date = None
    \/ ~ParsesAsIsoDate(video_data.upload_date)
    \/ video_data.view_count < 0
    \/ video_data.like_count < 0
    \/ video_data.channel_id = None
    \/ video_data.channel_title = None
    \/ video_data.thumbnail_url = None

\* VideoMetadata(**video_data).dict(): the validated record.
VideoMetadata(video_data) ==
    [video_data EXCEPT !.title = sanitize_text(video_data.title)]

-----------------------------------------------------------------------------
(* MongoDBClient and JSONStorage *)

\* MongoDBClient(): the client __init__ and _connect leave behind.  When the
\* ping fails, collection is still None; when _create_indexes fails, the
\* collection is already bound and the JSON fallback is switched on as well.
MongoDBClient(connect_outcome) ==
    CASE connect_outcome = "connected" ->
            [use_json_fallback |-> FALSE, collection |-> TRUE]
      [] connect_outcome = "ping_failed" ->
            [use_json_fallback |-> TRUE, collection |-> FALSE]
      [] connect_outcome = "index_failed" ->
            [use_json_fallback |-> TRUE, collection |-> TRUE]

ConnectOutcomes == {"connected", "ping_failed", "index_failed"}

HasVideo(videos, video_id) ==
    \E i \in 1..Len(videos) : videos[i].video_id = video_id

\* Mutation of MongoInsertVideo: the collection has no unique index.
MongoInsertVideoNoIndex(videos, doc, server_ok) ==
    IF ~server_ok THEN [videos |-> videos, path |-> "error", result |-> FALSE]
    ELSE [videos |-> Append(videos, doc), path |-> "inserted", result |-> TRUE]

\* collection.insert_one under the unique index on video_id, as insert_video
\* wraps it: the store afterwards and the value insert_video returns.
\* server_ok = FALSE is any other pymongo error.
MongoInsertVideo(videos, doc, server_ok) ==
    IF ~server_ok THEN [videos |-> videos, path |-> "error", result |-> FALSE]
    ELSE IF HasVideo(videos, doc.video_id)
         THEN [videos |-> videos, path |-> "duplicate", result |-> TRUE]
         ELSE [videos |-> Append(videos, doc), path |-> "inserted", result |-> TRUE]

\* JSONStorage._load_videos: the file's list, or [] when reading it raised.
LoadVideos(file, load_ok) == IF load_ok THEN file ELSE <<>>

\* JSONStorage.insert_video after the load: the list it hands to
\* _save_videos (written is FALSE when it returns before saving) and the
\* value it returns.
JsonInsertVideo(videos, video_data) ==
    IF HasVideo(videos, video_data.video_id)
    THEN [videos |-> videos, written |-> FALSE, path |-> "duplicate",
          result |-> FALSE]
    ELSE [videos |-> Append(videos, video_data), written |-> TRUE,
          path |-> "inserted", result |-> TRUE]

-----------------------------------------------------------------------------
(* process_youtube_notification, the background task *)

\* Mutant of Runnable: a lock is held across the extractor call.
RunnableSerialized(task) ==
    /\ WebIdle
    /\ BagIn(task, tasks)
    /\ \A t \in BagToSet(tasks) : t.pc = "extracting" => t = task

\* The event loop can resume task whenever no synchronous call is under way
\* in the web process: background tasks share no lock.
Runnable(task) == WebIdle /\ BagIn(task, tasks)

\* Mutant of StartOutcome: the extractor is called without the lookup.
StartOutcomeNoLookup(task, find_ok) ==
    LET video_info == parse_atom_feed(task.body)
    IN  IF video_info = NoneDict THEN "unparseable"
        ELSE IF ~client.collection THEN "error"
        ELSE "extracting"

\* Mutant of StartOutcome: the exception of a failed lookup leaves the task.
StartOutcomeLookupRaises(task, find_ok) ==
    LET video_info == parse_atom_feed(task.body)
    IN  IF video_info = NoneDict THEN "unparseable"
        ELSE IF ~client.collection \/ ~find_ok THEN "raised"
        ELSE IF HasVideo(mongo_videos, video_info.video_id) THEN "duplicate"
        ELSE "extracting"

\* Up to the await: parse the feed, look the video up, call the extractor.
\* find_ok = FALSE is find_one raising (the server cannot be reached).
\* The outcome is the log line of an early return, or "extracting".
StartOutcome(task, find_ok) ==
    LET video_info == parse_atom_feed(task.body)
    IN  IF video_info = NoneDict THEN "unparseable"
        ELSE IF ~client.collection \/ ~find_ok THEN "error"
        ELSE IF HasVideo(mongo_videos, video_info.video_id) THEN "duplicate"
        ELSE "extracting"

StartNotification(task, find_ok) ==
    LET video_info == parse_atom_feed(task.body)
        outcome == StartOutcome(task, find_ok)
        named == IF video_info = NoneDict THEN task
                 ELSE [task EXCEPT !.video_id = video_info.video_id,
                                   !.repeat = video_info.video_id \in stored_ids]
        rest == tasks (-) SetToBag({task})
    IN  /\ Runnable(task)
        /\ task.pc = "queued"
        /\ IF outcome = "extracting"
           THEN /\ tasks' = rest (+) SetToBag({[named EXCEPT
                                      !.pc = "extracting",
                                      !.extract_calls = @ + 1]})
                /\ logged' = NoLog
           ELSE /\ tasks' = rest
                /\ logged' = TaskLog(named, outcome, NoCall)
        /\ request' = NoRequest
        /\ response' = NoResponse
        /\ UNCHANGED <<settings, parsed, websub, client, batch_client, mongo_videos, json_videos,
                       json_io, stored_ids>>

InsertCalled(task, video_metadata) ==
    [task EXCEPT !.insert_calls = @ + 1, !.inserted = video_metadata]

StoreOutcome(success) == IF success THEN "stored" ELSE "store_failed"

\* stored_ids after task has been answered success by insert_video.
StoredIds(task, success) ==
    IF success /\ task.inserted.video_id = task.video_id
    THEN stored_ids \cup {task.video_id}
    ELSE stored_ids

\* Mutant of EnrichFailed: the extractor is asked once more before the
\* task gives up.
EnrichFailedRetry(task) ==
    /\ logged' = TaskLog([task EXCEPT !.extract_calls = @ + 1],
                         "enrich_failed", NoCall)
    /\ UNCHANGED <<mongo_videos, json_io, stored_ids>>

\* Mutant of EnrichFailed: the task never returns its outcome.
EnrichFailedSilent(task) ==
    /\ logged' = NoLog
    /\ UNCHANGED <<mongo_videos, json_io, stored_ids>>

\* 'if not video_data': the task logs the failure and returns.
EnrichFailed(task) ==
    /\ logged' = TaskLog(task, "enrich_failed", NoCall)
    /\ UNCHANGED <<mongo_videos, json_io, stored_ids>>

\* From the extractor's return on: validate and call db_client.insert_video.
\* On the JSON fallback the call runs up to the end of _load_videos here and
\* is completed by SaveVideos.  task.enriched records whether the extractor
\* returned data.
FinishNotification(task, info, server_ok, load_ok) ==
    LET video_data == get_video_details(WatchUrl(task.video_id), info)
        answered == [task EXCEPT !.enriched = video_data # NoneDict]
        rest == tasks (-) SetToBag({task})
    IN  /\ Runnable(task)
        /\ task.pc = "extracting"
        /\ tasks' = rest
        /\ IF video_data = NoneDict
           THEN EnrichFailed(answered)
           ELSE IF ValidationRaises(video_data)
           THEN /\ logged' = TaskLog(answered, "error", NoCall)
                /\ UNCHANGED <<mongo_videos, json_io, stored_ids>>
           ELSE LET video_metadata == VideoMetadata(video_data)
                    called == InsertCalled(answered, video_metadata)
                IN  IF client.use_json_fallback
                    THEN /\ json_io' = [json_io EXCEPT !["web"] =
                                [active |-> TRUE,
                                 videos |-> LoadVideos(json_videos, load_ok),
                                 video_data |-> video_metadata,
                                 present |-> HasVideo(json_videos, video_metadata.video_id),
                                 task |-> called]]
                         /\ logged' = NoLog
                         /\ UNCHANGED <<mongo_videos, stored_ids>>
                    ELSE LET r == MongoInsertVideo(mongo_videos, video_metadata, server_ok)
                         IN  /\ mongo_videos' = r.videos
                             /\ logged' = TaskLog(called, StoreOutcome(r.result),
                                    InsertCall(HasVideo(mongo_videos, video_metadata.video_id),
                                               r.path, r.videos = mongo_videos, r.result))
                             /\ stored_ids' = StoredIds(called, r.result)
                             /\ UNCHANGED json_io
        /\ request' = NoRequest
        /\ response' = NoResponse
        /\ UNCHANGED <<settings, parsed, websub, client, batch_client, json_videos>>

-----------------------------------------------------------------------------
(* scripts/initial_data_ingestion.py : the batch insert loop *)

\* One iteration of the loop over all_videos, for the video_data the
\* extractor produced from info.
BatchInsert(video_id, info, server_ok, load_ok) ==
    LET video_data == get_video_details(WatchUrl(video_id), info)
    IN  /\ json_io["batch"] = NoIo
        /\ video_data # NoneDict
        /\ IF ValidationRaises(video_data)
           THEN /\ logged' = BatchLog(video_data, NoCall)
                /\ UNCHANGED <<mongo_videos, json_io>>
           ELSE LET video_metadata == VideoMetadata(video_data)
                IN  IF batch_client.use_json_fallback
                    THEN /\ json_io' = [json_io EXCEPT !["batch"] =
                                [active |-> TRUE,
                                 videos |-> LoadVideos(json_videos, load_ok),
                                 video_data |-> video_metadata,
                                 present |-> HasVideo(json_videos, video_metadata.video_id),
                                 task |-> NoneDict]]
                         /\ logged' = NoLog
                         /\ UNCHANGED mongo_videos
                    ELSE LET r == MongoInsertVideo(mongo_videos, video_metadata, server_ok)
                         IN  /\ mongo_videos' = r.videos
                             /\ logged' = BatchLog(video_metadata,
                                    InsertCall(HasVideo(mongo_videos, video_metadata.video_id),
                                               r.path, r.videos = mongo_videos, r.result))
                             /\ UNCHANGED json_io
        /\ request' = NoRequest
        /\ response' = NoResponse
        /\ UNCHANGED <<settings, parsed, websub, tasks, client, batch_client, json_videos, stored_ids>>

\* The rest of JSONStorage.insert_video in process proc: the duplicate check
\* on the loaded list, the append and _save_videos, which swallows a failed
\* write (save_ok = FALSE).
SaveVideos(proc, save_ok) ==
    LET io == json_io[proc]
        r == JsonInsertVideo(io.videos, io.video_data)
        call == InsertCall(io.present, r.path,
                           json_videos' = json_videos, r.result)
    IN  /\ io # NoIo
        /\ json_videos' = IF r.written /\ save_ok THEN r.videos ELSE json_videos
        /\ json_io' = [json_io EXCEPT ![proc] = NoIo]
        /\ IF proc = "web"
           THEN /\ logged' = TaskLog(io.task, StoreOutcome(r.result), call)
                /\ stored_ids' = StoredIds(io.task, r.result)
           ELSE /\ logged' = BatchLog(io.video_data, call)
                /\ UNCHANGED stored_ids
        /\ request' = NoRequest
        /\ response' = NoResponse
        /\ UNCHANGED <<settings, parsed, websub, tasks, client, batch_client, mongo_videos>>

-----------------------------------------------------------------------------
(* Inputs *)

VideoIds == {<<"v1">>, <<"v2">>}

UploadDate == <<"2", "0", "2", "4", "0", "1", "3", "1">>

Info(id, title, upload_date, view_count, thumbnail) ==
    [id |-> id, title |-> title, upload_date |-> upload_date,
     view_count |-> view_count, like_count |-> 0,
     channel_id |-> <<"UCxyz">>, channel |-> <<"Channel">>,
     thumbnail |-> thumbnail]

Thumbnail == <<"https://i.ytimg.com/vi/hqdefault.jpg">>

GoodInfo(video_id) ==
    Info(video_id, <<" ", "My", " ", " ", "Video">>, UploadDate, 0, Thumbnail)

\* What ydl.extract_info may answer for the watch URL of video_id: it raises
\* (NoneDict), or returns the video's data, or data without an upload date
\* or without a thumbnail.
ExtractorInfos(video_id) ==
    {NoneDict, GoodInfo(video_id),
     Info(video_id, Missing, Missing, 0, Thumbnail),
     Info(video_id, <<"My", " ", "Video">>, UploadDate, 0, Missing)}

MainBodies == {WellFormedFeed("v1"), WellFormedFeed("v2"), NoChannelFeed("v1")}

\* Notification bodies put together from elements of an Atom entry, whole
\* or damaged, in any order.
FeedParts ==
    {<<"<entry>">>,
     <<"<yt:videoId>", "v1", "</yt:videoId>">>,
     <<"v1", "</yt:videoId>">>,
     <<"<yt:channelId>", "UCxyz", "</yt:channelId>">>,
     <<"<yt:channelId>", "</yt:channelId>">>}

RECURSIVE Feeds(_)
Feeds(n) ==
    IF n = 0 THEN {<<>>}
    ELSE Feeds(n - 1) \cup {f \o part : f \in Feeds(n - 1), part \in FeedParts}

DefaultSettings ==
    [webhook_verify_token |-> <<"youtube_verify_token">>,
     webhook_secret |-> <<"youtube_webhook_secret">>]

-----------------------------------------------------------------------------
(* Specifications *)

InitStorage ==
    /\ mongo_videos = <<>>
    /\ json_videos = <<>>
    /\ json_io = [proc \in {"web", "batch"} |-> NoIo]

InitWeb ==
    /\ request = NoRequest
    /\ response = NoResponse
    /\ tasks = EmptyBag
    /\ logged = NoLog
    /\ stored_ids = {}
    /\ parsed = NoParse
    /\ websub = NoRun

\* The pipeline: notifications arrive, their tasks run interleaved at the
\* await, and the batch ingestion script runs beside the web process, both
\* started against the same server.
Init ==
    /\ settings = DefaultSettings
    /\ \E o \in ConnectOutcomes :
          /\ client = MongoDBClient(o)
          /\ batch_client = MongoDBClient(o)
    /\ InitWeb
    /\ InitStorage

Receive == \E b \in MainBodies : youtube_webhook_notification(b, None)

\* find_one may raise and the server may refuse the insert at any call.
Start ==
    \E task \in BagToSet(tasks), find_ok \in BOOLEAN :
        StartNotification(task, find_ok)

Finish ==
    \E task \in BagToSet(tasks) : \E info \in ExtractorInfos(task.video_id) :
        \E server_ok \in BOOLEAN : FinishNotification(task, info, server_ok, TRUE)

Batch ==
    \E v \in VideoIds : \E info \in ExtractorInfos(v) : BatchInsert(v, info, TRUE, TRUE)

Save == \E proc \in {"web", "batch"} : SaveVideos(proc, TRUE)

Next == Receive \/ Start \/ Finish \/ Batch \/ Save

Spec == Init /\ [][Next]_vars

\* The handshake endpoint alone.
InitVerify ==
    /\ settings \in [webhook_verify_token : Tokens,
                     webhook_secret : {<<"youtube_webhook_secret">>}]
    /\ client = MongoDBClient("connected")
    /\ batch_client = MongoDBClient("connected")
    /\ InitWeb
    /\ InitStorage

Verify ==
    \E m \in Modes, c \in Challenges, t \in Tokens \cup {None} :
        youtube_webhook_verification(m, c, t)

NextVerify == Verify

SpecVerify == InitVerify /\ [][NextVerify]_vars

\* The notification endpoint alone.
InitNotify ==
    /\ settings \in [webhook_verify_token : {<<"youtube_verify_token">>},
                     webhook_secret : Secrets]
    /\ client = MongoDBClient("connected")
    /\ batch_client = MongoDBClient("connected")
    /\ InitWeb
    /\ InitStorage

Notify ==
    \E b \in PostBodies : \E h \in SignatureHeaders(b) :
        youtube_webhook_notification(b, h)

NextNotify == Notify

SpecNotify == InitNotify /\ [][NextNotify]_vars

\* One notification at a time against a connected server, for every feed
\* body and every answer of the extractor and of the server.
InitFeed ==
    /\ settings = DefaultSettings
    /\ client = MongoDBClient("connected")
    /\ batch_client = MongoDBClient("connected")
    /\ InitWeb
    /\ InitStorage

ReceiveFeed ==
    /\ tasks = EmptyBag
    /\ \E b \in Feeds(MaxFeedParts) : youtube_webhook_notification(b, None)

StartFeed ==
    \E task \in BagToSet(tasks) : \E find_ok \in BOOLEAN :
        StartNotification(task, find_ok)

FinishFeed ==
    \E task \in BagToSet(tasks) : \E info \in ExtractorInfos(task.video_id) :
        \E server_ok \in BOOLEAN : FinishNotification(task, info, server_ok, TRUE)

NextFeed == ReceiveFeed \/ StartFeed \/ FinishFeed

SpecFeed == InitFeed /\ [][NextFeed]_vars

-----------------------------------------------------------------------------
(* WebSubHandler.parse_atom_feed called on Atom snippets *)

\* The variables of the webhook router.
web == <<settings, request, response, tasks, logged, stored_ids>>

Element(open, text, close) == <<open>> \o text \o <<close>>

\* The element of an entry that kind names, with its text.
EntryElement(kind, entry) ==
    CASE kind = "video" ->
            Element("<yt:videoId>", entry.video_id, "</yt:videoId>")
      [] kind = "channel" ->
            Element("<yt:channelId>", entry.channel_id, "</yt:channelId>")
      [] OTHER -> Element("<title>", entry.title, "</title>")

\* An Atom snippet: what precedes the entry (head), then the entry with its
\* three elements in the given order, sep after each tag-delimited part.
Snippet(head, order, sep, entry) ==
    head \o <<"<entry>">> \o sep
      \o EntryElement(order[1], entry) \o sep
      \o EntryElement(order[2], entry) \o sep
      \o EntryElement(order[3], entry) \o sep
      \o <<"</entry>">>

ElementOrders ==
    {o \in [1..3 -> {"video", "channel", "title"}] :
        \A i, j \in 1..3 : o[i] = o[j] => i = j}

\* Texts of the elements; a title may run over two lines.
Entries ==
    [video_id : {<<"abc123">>, <<"v1">>},
     channel_id : {<<"UCxyz">>},
     title : {<<"My Video">>, <<"My", "\n", "Video">>}]

\* Before the entry: nothing, or the feed's own title as the hub sends it.
Heads == {<<>>, <<"<title>", "YouTube video feed", "</title>", "\n">>}

\* Between elements: nothing, or a line break.
Separators == {<<>>, <<"\n">>}

\* parse_atom_feed is called with feed_content; entry records the texts the
\* snippet was written from.
ParseCalled(feed_content, entry) ==
    [pc |-> "called", feed_content |-> feed_content, entry |-> entry,
     video_info |-> NoneDict]

ParseReturns ==
    /\ parsed.pc = "called"
    /\ parsed' = [parsed EXCEPT !.pc = "returned",
                                !.video_info = parse_atom_feed(parsed.feed_content)]
    /\ UNCHANGED <<web, storage, websub>>

InitParse ==
    /\ settings = DefaultSettings
    /\ client = MongoDBClient("connected")
    /\ batch_client = MongoDBClient("connected")
    /\ request = NoRequest
    /\ response = NoResponse
    /\ tasks = EmptyBag
    /\ logged = NoLog
    /\ stored_ids = {}
    /\ websub = NoRun
    /\ InitStorage
    /\ \E head \in Heads, order \in ElementOrders, sep \in Separators,
          entry \in Entries :
            parsed = ParseCalled(Snippet(head, order, sep, entry), entry)

NextParse == ParseReturns

SpecParse == InitParse /\ [][NextParse]_vars

-----------------------------------------------------------------------------
(* WebSubHandler: subscription calls to the hub *)

\* Most channels a ChannelManager holds.
MaxChannels == 3

\* ChannelManager.get_all_channels with n channels configured: the values of
\* a dict keyed by channel_id, so no channel occurs twice.
get_all_channels(n) == [i \in 1..n |-> <<"UC", IntToText(i)>>]

ChannelIds == {get_all_channels(MaxChannels)[i] : i \in 1..MaxChannels}

\* What one POST to the hub meets: no response at all, or a response with a
\* status whose body can or cannot be read.
NetworkFailure == [kind |-> "failure"]
HubResponse(status, text_ok) ==
    [kind |-> "response", status |-> status, text_ok |-> text_ok]

SuccessStatuses == {202, 204}
HubStatuses == {200, 202, 204, 403}

HubAnswers ==
    {NetworkFailure}
      \cup {HubResponse(s, TRUE) : s \in HubStatuses}
      \cup {HubResponse(s, FALSE) : s \in HubStatuses \ SuccessStatuses}

HubRequest(mode, channel_id) == [mode |-> mode, channel_id |-> channel_id]

\* Mutant of HubCall: every answered request counts as a success.
HubCallAnyStatus(mode, answer) ==
    [result |-> answer.kind = "response", raised |-> FALSE]

\* The try block shared by subscribe_to_channel and unsubscribe_from_channel
\* with its except clause: what the call returns, and whether it raises.
HubCall(mode, answer) ==
    LET exception ==
            \/ answer.kind = "failure"
            \/ /\ answer.status \notin SuccessStatuses
               /\ mode = "subscribe"
               /\ ~answer.text_ok
    IN  IF exception
        THEN [result |-> FALSE, raised |-> FALSE]
        ELSE [result |-> answer.status \in SuccessStatuses, raised |-> FALSE]

subscribe_to_channel(answer) == HubCall("subscribe", answer)
unsubscribe_from_channel(answer) == HubCall("unsubscribe", answer)

SingleOps == {"subscribe_to_channel", "unsubscribe_from_channel"}
AllOps == {"subscribe_to_all_channels", "renew_subscriptions"}

\* A call of op over channels, before its first request.
Run(op, channels) ==
    [op |-> op,
     pc |-> IF channels = <<>> THEN "returned" ELSE "posting",
     channels |-> channels, i |-> 1,
     requests |-> <<>>, answers |-> <<>>, sleeps |-> 0,
     results |-> <<>>, result |-> FALSE, raised |-> FALSE]

subscribe_to_all_channels(channels) == Run("subscribe_to_all_channels", channels)

\* Mutant of renew_subscriptions: the first channel is not renewed.
renew_subscriptions_skip_first(channels) ==
    [Run("renew_subscriptions", channels)
        EXCEPT !.i = 2,
               !.pc = IF Len(channels) <= 1 THEN "returned" ELSE "posting"]

\* renew_subscriptions logs and awaits subscribe_to_all_channels.
renew_subscriptions(channels) ==
    [subscribe_to_all_channels(channels) EXCEPT !.op = "renew_subscriptions"]

\* Mutant of AfterAnswer: the loop ends at the first failed channel.
AfterAnswerStopOnFailure(run, answer) ==
    LET call == HubCall(IF run.op = "unsubscribe_from_channel"
                        THEN "unsubscribe" ELSE "subscribe", answer)
        seen == [run EXCEPT !.answers = Append(@, answer)]
    IN  IF run.op \in SingleOps
        THEN [seen EXCEPT !.pc = "returned", !.result = call.result]
        ELSE IF call.result
             THEN [seen EXCEPT !.pc = "sleeping",
                               !.results = (run.channels[run.i] :> TRUE) @@ @]
             ELSE [seen EXCEPT !.pc = "returned",
                               !.results = (run.channels[run.i] :> FALSE) @@ @]

\* Mutant of AfterAnswer: a failed channel is requested again.
AfterAnswerRetry(run, answer) ==
    LET call == HubCall(IF run.op = "unsubscribe_from_channel"
                        THEN "unsubscribe" ELSE "subscribe", answer)
        seen == [run EXCEPT !.answers = Append(@, answer)]
    IN  IF run.op \in SingleOps
        THEN [seen EXCEPT !.pc = "returned", !.result = call.result]
        ELSE IF call.result \/ Len(run.requests) >= 2 * Len(run.channels)
             THEN [seen EXCEPT !.pc = "sleeping",
                               !.results = (run.channels[run.i] :> call.result) @@ @]
             ELSE [seen EXCEPT !.pc = "posting"]

\* The run after the hub's answer to the outstanding request: a single call
\* returns; the loop of subscribe_to_all_channels stores the channel's result
\* and goes on to its delay.  An exception leaving the call ends the run.
AfterAnswer(run, answer) ==
    LET call == IF run.op = "unsubscribe_from_channel"
                THEN unsubscribe_from_channel(answer)
                ELSE subscribe_to_channel(answer)
        seen == [run EXCEPT !.answers = Append(@, answer)]
    IN  IF call.raised
        THEN [seen EXCEPT !.pc = "returned", !.raised = TRUE]
        ELSE IF run.op \in SingleOps
             THEN [seen EXCEPT !.pc = "returned", !.result = call.result]
             ELSE [seen EXCEPT !.pc = "sleeping",
                               !.results = (run.channels[run.i] :> call.result) @@ @]

\* session.post(hub_url, data=data): the request leaves for the hub.
AfterPost(run) ==
    [run EXCEPT
        !.pc = "awaiting",
        !.requests =
            Append(@, HubRequest(IF run.op = "unsubscribe_from_channel"
                                 THEN "unsubscribe" ELSE "subscribe",
                                 run.channels[run.i]))]

\* await asyncio.sleep(1), then the next channel or the return.
AfterSleep(run) ==
    [run EXCEPT
        !.sleeps = @ + 1,
        !.i = @ + 1,
        !.pc = IF run.i + 1 > Len(run.channels)
               THEN "returned" ELSE "posting"]

\* The run carried on from run while the hub gives the answers in turn.
RECURSIVE RunOn(_, _)
RunOn(run, answers) ==
    CASE run.pc = "posting" -> RunOn(AfterPost(run), answers)
      [] run.pc = "sleeping" -> RunOn(AfterSleep(run), answers)
      [] run.pc = "awaiting" /\ answers # <<>> ->
            RunOn(AfterAnswer(run, Head(answers)), Tail(answers))
      [] OTHER -> run

CallSubscribe ==
    /\ websub = NoRun
    /\ \E channel_id \in ChannelIds :
          websub' = Run("subscribe_to_channel", <<channel_id>>)
    /\ UNCHANGED <<web, storage, parsed>>

CallUnsubscribe ==
    /\ websub = NoRun
    /\ \E channel_id \in ChannelIds :
          websub' = Run("unsubscribe_from_channel", <<channel_id>>)
    /\ UNCHANGED <<web, storage, parsed>>

CallSubscribeAll ==
    /\ websub = NoRun
    /\ \E n \in 0..MaxChannels :
          websub' = subscribe_to_all_channels(get_all_channels(n))
    /\ UNCHANGED <<web, storage, parsed>>

CallRenew ==
    /\ websub = NoRun
    /\ \E n \in 0..MaxChannels :
          websub' = renew_subscriptions(get_all_channels(n))
    /\ UNCHANGED <<web, storage, parsed>>

\* Mutant of Post: the subscription request also empties the collection.
PostEmptiesStore ==
    /\ websub.pc = "posting"
    /\ websub' = AfterPost(websub)
    /\ mongo_videos' = <<>>
    /\ UNCHANGED <<web, client, batch_client, json_videos, json_io, parsed>>

Post ==
    /\ websub.pc = "posting"
    /\ websub' = AfterPost(websub)
    /\ UNCHANGED <<web, storage, parsed>>

Answer ==
    /\ websub.pc = "awaiting"
    /\ \E answer \in HubAnswers : websub' = AfterAnswer(websub, answer)
    /\ UNCHANGED <<web, storage, parsed>>

Sleep ==
    /\ websub.pc = "sleeping"
    /\ websub' = AfterSleep(websub)
    /\ UNCHANGED <<web, storage, parsed>>

InitSub ==
    /\ settings = DefaultSettings
    /\ client = MongoDBClient("connected")
    /\ batch_client = MongoDBClient("connected")
    /\ request = NoRequest
    /\ response = NoResponse
    /\ tasks = EmptyBag
    /\ logged = NoLog
    /\ stored_ids = {}
    /\ parsed = NoParse
    /\ websub = NoRun
    /\ InitStorage

NextSub ==
    \/ CallSubscribe
    \/ CallUnsubscribe
    \/ CallSubscribeAll
    \/ CallRenew
    \/ Post
    \/ Answer
    \/ Sleep

SpecSub == InitSub /\ [][NextSub]_vars

-----------------------------------------------------------------------------
(* Both endpoints beside a running background task *)

InitReject ==
    /\ settings = DefaultSettings
    /\ client = MongoDBClient("connected")
    /\ batch_client = MongoDBClient("connected")
    /\ InitWeb
    /\ InitStorage

\* Any handshake, with a numeric challenge or none.
Handshake ==
    \E m \in Modes, c \in {None, <<"1", "0">>}, t \in Tokens \cup {None} :
        youtube_webhook_verification(m, c, t)

\* Any POST; an accepted one only when no job is in the queue.
NotifyAny ==
    \E b \in PostBodies : \E h \in SignatureHeaders(b) :
        /\ NotificationVerdict(b, h) = "accepted" => tasks = EmptyBag
        /\ youtube_webhook_notification(b, h)

NextReject == Handshake \/ NotifyAny \/ StartFeed \/ FinishFeed

SpecReject == InitReject /\ [][NextReject]_vars

-----------------------------------------------------------------------------
(* The JSON file shared by the web process and the ingestion script *)

\* The same video extracted later: its view count has grown.
LaterInfo(video_id) ==
    Info(video_id, <<"My", " ", "Video">>, UploadDate, 1, Thumbnail)

\* One notification at a time.
ReceiveOne ==
    /\ tasks = EmptyBag
    /\ \E b \in MainBodies : youtube_webhook_notification(b, None)

InitJson ==
    /\ settings = DefaultSettings
    /\ \E o \in {"ping_failed", "index_failed"} :
          /\ client = MongoDBClient(o)
          /\ batch_client = MongoDBClient(o)
    /\ InitWeb
    /\ InitStorage

\* Reading videos.json may fail at any call.  The web process extracts a
\* video when it is published, the ingestion script later.
FinishJson ==
    \E task \in BagToSet(tasks) : \E load_ok \in BOOLEAN :
        FinishNotification(task, GoodInfo(task.video_id), TRUE, load_ok)

BatchJson ==
    \E v \in VideoIds : \E load_ok \in BOOLEAN :
        BatchInsert(v, LaterInfo(v), TRUE, load_ok)

NextJson == ReceiveOne \/ StartFeed \/ FinishJson \/ BatchJson \/ Save

SpecJson == InitJson /\ [][NextJson]_vars

-----------------------------------------------------------------------------
(* Subscription calls beside notification handling *)

\* The hub accepts the request or cannot be reached.
AnswerFew ==
    /\ websub.pc = "awaiting"
    /\ \E answer \in {HubResponse(204, TRUE), NetworkFailure} :
          websub' = AfterAnswer(websub, answer)
    /\ UNCHANGED <<web, storage, parsed>>

NextConcurrent ==
    \/ CallUnsubscribe
    \/ CallRenew
    \/ Post
    \/ AnswerFew
    \/ Sleep
    \/ ReceiveOne
    \/ StartFeed
    \/ FinishFeed

SpecConcurrent == InitFeed /\ [][NextConcurrent]_vars

-----------------------------------------------------------------------------
(* Enqueued jobs run to their end *)

\* The queue after the handler accepted the notifications bodies.
RECURSIVE Enqueued(_)
Enqueued(bodies) ==
    IF bodies = <<>> THEN EmptyBag
    ELSE SetToBag({NewTask(Head(bodies))}) (+) Enqueued(Tail(bodies))

InitLive ==
    /\ settings = DefaultSettings
    /\ \E o \in ConnectOutcomes :
          /\ client = MongoDBClient(o)
          /\ batch_client = MongoDBClient(o)
    /\ request = NoRequest
    /\ response = NoResponse
    /\ logged = NoLog
    /\ stored_ids = {}
    /\ parsed = NoParse
    /\ websub = NoRun
    /\ InitStorage
    /\ \E bodies \in SeqsUpTo(MainBodies, MaxTasks) : tasks = Enqueued(bodies)

NextLive == Start \/ Finish \/ Save

\* Every call a job makes returns: the lookup, the extractor call and the
\* file write are each resumed by the event loop.
SpecLive ==
    /\ InitLive
    /\ [][NextLive]_vars
    /\ WF_vars(Start)
    /\ WF_vars(Finish)
    /\ WF_vars(Save)

-----------------------------------------------------------------------------
(* One notification at a time, on every backend, for every answer of the
   extractor *)

\* What ydl.extract_info may answer beyond ExtractorInfos: the data of
\* another video, data without an id or without a channel id, a negative
\* view count, an upload date that is no calendar date.
IngestInfos(video_id) ==
    LET other_id == CHOOSE v \in VideoIds : v # video_id
        month_13 == <<"2", "0", "2", "4", "1", "3", "0", "1">>
    IN  {NoneDict, GoodInfo(video_id), GoodInfo(other_id),
         [GoodInfo(video_id) EXCEPT !.id = Missing],
         [GoodInfo(video_id) EXCEPT !.channel_id = Missing],
         [GoodInfo(video_id) EXCEPT !.view_count = -1],
         [GoodInfo(video_id) EXCEPT !.upload_date = month_13]}

\* The lookup answers whenever there is a collection to ask.
StartIngest == \E task \in BagToSet(tasks) : StartNotification(task, TRUE)

FinishIngest ==
    \E task \in BagToSet(tasks) : \E info \in IngestInfos(task.video_id) :
        FinishNotification(task, info, TRUE, TRUE)

NextIngest == ReceiveOne \/ StartIngest \/ FinishIngest \/ Save

SpecIngest == Init /\ [][NextIngest]_vars

-----------------------------------------------------------------------------
(* MongoDBClient() called in one process from threads that may overlap, as
   the session threads of the Streamlit frontend do.  client holds the class
   attribute _instance (0 is None) and the objects created so far, tasks the
   calls under way, logged the object a call returned. *)

NoInstance == [instance |-> 0, objects |-> <<>>]

ConstructionLog(self, raised) ==
    [kind |-> "construction", returned |-> self, raised |-> raised]

\* MongoDBClient() is called: __new__ tests 'cls._instance is None'.
Construct ==
    /\ BagCardinality(tasks) < MaxTasks
    /\ tasks' = tasks (+) SetToBag({[pc |-> "new", self |-> 0,
                                     is_none |-> client.instance = 0]})
    /\ logged' = NoLog
    /\ UNCHANGED <<settings, request, response, stored_ids, parsed, websub,
                   storage>>

\* The rest of __new__: after a test that found None a new object becomes
\* the instance; the call goes on with cls._instance.
__new__ ==
    \E call \in BagToSet(tasks) :
        LET created == [instance |-> Len(client.objects) + 1,
                        objects |-> Append(client.objects,
                                      [initialized |-> FALSE,
                                       use_json_fallback |-> FALSE,
                                       collection |-> FALSE])]
            class == IF call.is_none THEN created ELSE client
        IN  /\ call.pc = "new"
            /\ client' = class
            /\ tasks' = (tasks (-) SetToBag({call})) (+)
                  SetToBag({[call EXCEPT !.pc = "init", !.self = class.instance]})
            /\ logged' = NoLog
            /\ UNCHANGED <<settings, request, response, stored_ids, parsed,
                           websub, batch_client, mongo_videos, json_videos,
                           json_io>>

\* __init__ up to the call of _connect: it returns at once on an initialized
\* object and resets the fields of any other.
__init__ ==
    \E call \in BagToSet(tasks) :
        LET rest == tasks (-) SetToBag({call})
        IN  /\ call.pc = "init"
            /\ IF client.objects[call.self].initialized
               THEN /\ tasks' = rest
                    /\ logged' = ConstructionLog(call.self, FALSE)
                    /\ UNCHANGED client
               ELSE /\ tasks' = rest (+) SetToBag({[call EXCEPT !.pc = "connect"]})
                    /\ logged' = NoLog
                    /\ client' = [client EXCEPT !.objects[call.self] =
                                      [@ EXCEPT !.use_json_fallback = FALSE,
                                                !.collection = FALSE]]
            /\ UNCHANGED <<settings, request, response, stored_ids, parsed,
                           websub, batch_client, mongo_videos, json_videos,
                           json_io>>

\* _connect and the end of __init__.  The collection is bound once the ping
\* succeeded; a failure switches the JSON fallback on, and when JSONStorage()
\* raises as well (fallback_ok = FALSE) the exception leaves __init__ before
\* _initialized is set.
_connect ==
    \E call \in BagToSet(tasks), outcome \in ConnectOutcomes,
       fallback_ok \in BOOLEAN :
        LET raised == outcome # "connected" /\ ~fallback_ok
        IN  /\ call.pc = "connect"
            /\ client' = [client EXCEPT !.objects[call.self] =
                  [@ EXCEPT !.collection =
                                IF outcome = "ping_failed" THEN @ ELSE TRUE,
                            !.use_json_fallback =
                                IF outcome = "connected" THEN @ ELSE TRUE,
                            !.initialized = IF raised THEN @ ELSE TRUE]]
            /\ tasks' = tasks (-) SetToBag({call})
            /\ logged' = ConstructionLog(call.self, raised)
            /\ UNCHANGED <<settings, request, response, stored_ids, parsed,
                           websub, batch_client, mongo_videos, json_videos,
                           json_io>>

InitClient ==
    /\ settings = DefaultSettings
    /\ client = NoInstance
    /\ batch_client = MongoDBClient("connected")
    /\ InitWeb
    /\ InitStorage

NextClient == Construct \/ __new__ \/ __init__ \/ _connect

SpecClient == InitClient /\ [][NextClient]_vars

-----------------------------------------------------------------------------
(* Properties of the video store and of notification processing, checked
   under Spec *)

Unique(videos) ==
    \A i, j \in 1..Len(videos) :
        videos[i].video_id = videos[j].video_id => i = j

\* The store db_client.insert_video writes to.
StoreInUse == IF client.use_json_fallback THEN json_videos ELSE mongo_videos

CountOf(videos, video_id) ==
    Cardinality({i \in 1..Len(videos) : videos[i].video_id = video_id})

InsertLogged == logged.kind # "none" /\ logged.insert.path # "none"

\* C1: on the MongoDB store and on the JSON fallback store alike, no two
\* stored records share a video_id, in every state that interleavings of
\* webhook tasks and batch inserts can reach.
C1_VideoIdUnique == Unique(mongo_videos) /\ Unique(json_videos)

\* A batch insert has just met the record a notification had stored, and
\* the store holds that video once.
C1_Witness ==
    /\ logged.kind = "batch"
    /\ logged.insert.path = "duplicate"
    /\ logged.video_data.video_id \in stored_ids
    /\ CountOf(StoreInUse, logged.video_data.video_id) = 1

\* C2: an insert_video call with a record whose video_id is already stored
\* leaves the store as it was and returns True, on every backend.
C2_DuplicateInsertIsSuccess ==
    (InsertLogged /\ logged.insert.present /\ logged.insert.path # "error")
    => (logged.insert.unchanged /\ logged.insert.result)

\* C3: when two notifications for one never-seen video_id both pass the
\* lookup before either inserts, the insert of the second is treated as a
\* success and the store holds exactly one record for that video_id.
C3_RacingNotificationsOneRecord ==
    (/\ logged.kind = "notification"
     /\ logged.raced
     /\ logged.task.insert_calls = 1
     /\ logged.task.inserted.video_id = logged.task.video_id)
    => (/\ logged.outcome = "stored"
        /\ logged.insert.result
        /\ CountOf(StoreInUse, logged.task.video_id) = 1)

Populated(record) ==
    /\ Truthy(record.title)
    /\ Truthy(record.url)
    /\ Truthy(record.upload_date)
    /\ Truthy(record.channel_id)
    /\ Truthy(record.thumbnail_url)

\* C4: a notification for a video_id no notification has stored, once its
\* record is stored, has made exactly one insert call, with the extractor's
\* fields filled in; a notification that repeats a stored video_id makes no
\* insert call.
C4_OneInsertThenNone ==
    logged.kind = "notification" =>
        /\ (~logged.task.repeat /\ logged.outcome = "stored")
            => (/\ logged.task.insert_calls = 1
                /\ logged.task.extract_calls = 1
                /\ Populated(logged.task.inserted))
        /\ logged.task.repeat => logged.task.insert_calls = 0

-----------------------------------------------------------------------------
(* Properties of feed parsing, checked under SpecFeed *)

\* No element open ... close occurs in body.
Absent(body, open, close) ==
    ~\E i, j \in 1..Len(body) : i < j /\ body[i] = open /\ body[j] = close

IdAbsent(body) ==
    \/ Absent(body, "<yt:videoId>", "</yt:videoId>")
    \/ Absent(body, "<yt:channelId>", "</yt:channelId>")

\* C10: for a body without a video id or without a channel id,
\* parse_atom_feed returns None, and the task that processes it ends without
\* a call to the extractor and without a change to the store.
C10_NoIdNoProcessing ==
    [][(logged'.kind = "notification" /\ IdAbsent(logged'.task.body))
        => (/\ parse_atom_feed(logged'.task.body) = NoneDict
            /\ logged'.outcome = "unparseable"
            /\ logged'.task.extract_calls = 0
            /\ logged'.task.insert_calls = 0
            /\ mongo_videos' = mongo_videos
            /\ json_videos' = json_videos)]_vars

\* A task has ended on a body that names a video but no channel.
C10_Witness ==
    /\ logged.kind = "notification"
    /\ ~Absent(logged.task.body, "<yt:videoId>", "</yt:videoId>")
    /\ Absent(logged.task.body, "<yt:channelId>", "</yt:channelId>")
    /\ Contains(logged.task.body, "<entry>")
    /\ logged.outcome = "unparseable"

-----------------------------------------------------------------------------
(* Properties of the handshake endpoint, checked under SpecVerify *)

IsHandshake(mode) == request.method = "GET" /\ request.mode = mode

\* C5: for a handshake with hub.mode=subscribe and the configured verify
\* token, the response body is the supplied hub.challenge, echoed verbatim.
C5_ChallengeEchoedVerbatim ==
    (/\ IsHandshake(<<"subscribe">>)
     /\ request.token = settings.webhook_verify_token
     /\ Truthy(request.challenge))
    => (response.status = 200 /\ response.body = request.challenge)

\* C6: a handshake with hub.mode=subscribe whose verify token differs from
\* the configured one (an absent token included) is rejected with 403 and
\* the response does not carry the challenge.
C6_TokenMismatchRejected ==
    (/\ IsHandshake(<<"subscribe">>)
     /\ request.token # settings.webhook_verify_token)
    => (/\ response.status = 403
        /\ response.body # request.challenge
        /\ (~PyIntRaises(request.challenge)
            => response.body # IntToText(PyInt(request.challenge))))

C6_Witness ==
    /\ IsHandshake(<<"subscribe">>)
    /\ request.token = None
    /\ request.challenge = <<"1", "0">>
    /\ response.status = 403

\* C7: hub.mode=unsubscribe is acknowledged with success whatever the token
\* and the challenge are; any mode other than subscribe and unsubscribe, a
\* missing one included, is a 400 error.
C7_UnsubscribeAckOtherModeBadRequest ==
    request.method = "GET" =>
        /\ request.mode = <<"unsubscribe">>
            => (response.status = 200 /\ response.body = <<"Unsubscribed">>)
        /\ request.mode \notin {<<"subscribe">>, <<"unsubscribe">>}
            => response.status = 400

C7_Witness ==
    /\ IsHandshake(<<"unsubscribe">>)
    /\ request.token # settings.webhook_verify_token
    /\ request.challenge = None
    /\ response.status = 200

-----------------------------------------------------------------------------
(* Properties of the notification endpoint, checked under SpecNotify *)

\* The header value with its sha1= prefix stripped, as the claim reads it.
StripPrefix(h) ==
    IF StartsWith(h, Sha1Prefix) THEN SubSeq(h, Len(Sha1Prefix) + 1, Len(h)) ELSE h

IsSignedPost ==
    /\ request.method = "POST"
    /\ Truthy(settings.webhook_secret)
    /\ request.signature # None

LastEnqueuedIsRequest == BagIn(NewTask(request.body), tasks)

\* C8: with a secret configured and a signature header present, the
\* notification is accepted and enqueued if and only if the header, after
\* stripping its sha1= prefix, equals the hex HMAC of the raw body keyed by
\* the secret; any mismatch is answered 403.
C8_AcceptedIffSignatureMatches ==
    IsSignedPost =>
        LET matches == StripPrefix(request.signature)
                         = HexDigest(settings.webhook_secret, request.body)
        IN  /\ matches => (response.status = 200 /\ LastEnqueuedIsRequest)
            /\ ~matches => response.status = 403

\* C9: verification is skipped and the body enqueued whenever the secret is
\* empty or the request has no signature header, whatever the body is.
C9_UnsignedAlwaysEnqueued ==
    (/\ request.method = "POST"
     /\ (~Truthy(settings.webhook_secret) \/ request.signature = None))
    => (response.status = 200 /\ LastEnqueuedIsRequest)

-----------------------------------------------------------------------------
(* Properties of parse_atom_feed, checked under SpecParse *)

\* C11: parse_atom_feed applied to a well-formed snippet with an entry, a
\* video id V, a channel id C and a title T returns video_id V, channel_id C
\* and title T.
C11_WellFormedSnippetParsed ==
    parsed.pc = "returned" =>
        /\ parsed.video_info # NoneDict
        /\ parsed.video_info.video_id = parsed.entry.video_id
        /\ parsed.video_info.channel_id = parsed.entry.channel_id
        /\ parsed.video_info.title = parsed.entry.title

-----------------------------------------------------------------------------
(* Properties of the subscription calls, checked under SpecSub *)

Returned(ops) == websub.pc = "returned" /\ websub.op \in ops

Accepted(answer) ==
    answer.kind = "response" /\ answer.status \in {202, 204}

\* C12: subscribe_to_channel and unsubscribe_from_channel return True
\* exactly when the hub answered 202 or 204; for any other status and for a
\* network failure they return False, and they never raise.
C12_TrueIffHubAccepted ==
    Returned(SingleOps) =>
        /\ ~websub.raised
        /\ Len(websub.requests) = 1
        /\ websub.result <=> Accepted(websub.answers[1])

\* unsubscribe_from_channel returned False on the hub's answer 200.
C12_Witness ==
    /\ Returned({"unsubscribe_from_channel"})
    /\ ~websub.result
    /\ websub.answers[1] = HubResponse(200, TRUE)

Range(seq) == {seq[i] : i \in DOMAIN seq}

\* C13: subscribe_to_all_channels never raises and returns a mapping with
\* exactly one entry per configured channel; the entry of a channel depends
\* only on the hub's answer to that channel's request, and every channel is
\* requested whatever the answers to the others were.
C13_OneResultPerChannel ==
    Returned({"subscribe_to_all_channels"}) =>
        /\ ~websub.raised
        /\ DOMAIN websub.results = Range(websub.channels)
        /\ Len(websub.requests) = Len(websub.channels)
        /\ Len(websub.answers) = Len(websub.channels)
        /\ \A i \in DOMAIN websub.channels :
              /\ websub.requests[i] = HubRequest("subscribe", websub.channels[i])
              /\ websub.results[websub.channels[i]] = Accepted(websub.answers[i])

\* Three channels answered 204, 403, 204: two True entries and one False.
C13_Witness ==
    /\ Returned({"subscribe_to_all_channels"})
    /\ Len(websub.channels) = 3
    /\ websub.answers =
          <<HubResponse(204, TRUE), HubResponse(403, TRUE), HubResponse(204, TRUE)>>
    /\ Cardinality({c \in DOMAIN websub.results : websub.results[c]}) = 2
    /\ Cardinality({c \in DOMAIN websub.results : ~websub.results[c]}) = 1

\* C14: renew_subscriptions does what subscribe_to_all_channels does: over
\* the same channels and with the same hub answers it has issued the same
\* requests and returns the same mapping.
C14_RenewIsSubscribeAll ==
    Returned({"renew_subscriptions"}) =>
        LET all == RunOn(subscribe_to_all_channels(websub.channels),
                         websub.answers)
        IN  /\ all.pc = "returned"
            /\ websub.requests = all.requests
            /\ websub.results = all.results
            /\ websub.raised = all.raised

\* A renewal over three channels returned with a failure among its results.
C14_Witness ==
    /\ Returned({"renew_subscriptions"})
    /\ Len(websub.requests) = 3
    /\ \E c \in DOMAIN websub.results : ~websub.results[c]
    /\ \E c \in DOMAIN websub.results : websub.results[c]

\* C20: one call of subscribe_to_all_channels issues one subscribe request
\* per configured channel, in the order of the channels: a request leaves
\* only when every earlier one has been answered and followed by its delay,
\* and no channel is requested again, whatever the answer to it was.
C20_OneRequestPerChannelInTurn ==
    (websub.pc # "idle" /\ websub.op = "subscribe_to_all_channels") =>
        /\ Len(websub.requests) <= Len(websub.channels)
        /\ Len(websub.requests) <= Len(websub.answers) + 1
        /\ Len(websub.requests) <= websub.sleeps + 1
        /\ \A k \in DOMAIN websub.requests :
              websub.requests[k] = HubRequest("subscribe", websub.channels[k])
        /\ websub.pc = "returned" =>
              Len(websub.requests) = Len(websub.channels)

\* The third request is out after the second channel's request failed.
C20_Witness ==
    /\ websub.pc = "awaiting"
    /\ websub.op = "subscribe_to_all_channels"
    /\ Len(websub.requests) = 3
    /\ websub.sleeps = 2
    /\ websub.answers[2] = NetworkFailure

-----------------------------------------------------------------------------
(* Properties of the notification handler and its background task, checked
   under Spec *)

\* C15: the handler answers an accepted POST notification with the same
\* response whatever becomes of the ingestion: its step only adds the job to
\* the queue, with no parse, lookup, extractor or insert call made, no
\* outcome logged and the stores as they were.
C15_RespondsBeforeIngestion ==
    [][(request'.method = "POST" /\ response'.status = 200)
        => (/\ response' = [status |-> 200, body |-> <<"processing">>]
            /\ \E t \in BagToSet(tasks') :
                  /\ tasks' = tasks (+) SetToBag({t})
                  /\ t.pc = "queued"
                  /\ t.body = request'.body
                  /\ t.video_id = None
                  /\ t.extract_calls = 0
                  /\ t.insert_calls = 0
            /\ logged' = NoLog
            /\ mongo_videos' = mongo_videos
            /\ json_videos' = json_videos
            /\ json_io' = json_io)]_vars

\* A notification whose body cannot be parsed has been answered 200 while an
\* earlier job is still running.
C15_Witness ==
    /\ request.method = "POST"
    /\ response = [status |-> 200, body |-> <<"processing">>]
    /\ parse_atom_feed(request.body) = NoneDict
    /\ \E t \in BagToSet(tasks) : t.pc = "extracting"

\* The outcomes process_youtube_notification logs before it returns.
HandledOutcomes ==
    {"unparseable", "duplicate", "enrich_failed", "error", "stored",
     "store_failed"}

FailedOutcomes == {"unparseable", "enrich_failed", "error", "store_failed"}

\* C16: process_youtube_notification never raises: whatever the parser, the
\* lookup, the extractor, the validation or the insert did, the task ends
\* with a logged outcome.  A task that ends in a failure leaves the stores
\* and every other task as they were, so their outcomes do not depend on it.
C16_FailuresHandledAndIsolated ==
    [][logged'.kind = "notification"
        => (/\ logged'.outcome \in HandledOutcomes
            /\ logged'.outcome \in FailedOutcomes
                => (/\ mongo_videos' = mongo_videos
                    /\ json_videos' = json_videos
                    /\ stored_ids' = stored_ids
                    /\ \/ tasks' = tasks
                       \/ \E t \in BagToSet(tasks) :
                            tasks' (+) SetToBag({t}) = tasks))]_vars

\* The lookup of one task raised while another task awaits the extractor.
C16_Witness ==
    /\ logged.kind = "notification"
    /\ logged.outcome = "error"
    /\ logged.task.extract_calls = 0
    /\ client.collection
    /\ \E t \in BagToSet(tasks) : t.pc = "extracting"

\* C18: when the extractor returns nothing for the video of a notification,
\* the task ends there: it has called the extractor once and insert_video
\* never, and the stores are as they were.
C18_NoDetailsNoInsert ==
    [][(/\ logged'.kind = "notification"
        /\ logged'.task.extract_calls >= 1
        /\ ~logged'.task.enriched)
        => (/\ logged'.outcome = "enrich_failed"
            /\ logged'.task.extract_calls = 1
            /\ logged'.task.insert_calls = 0
            /\ logged'.insert = NoCall
            /\ mongo_videos' = mongo_videos
            /\ json_videos' = json_videos
            /\ json_io' = json_io)]_vars

\* The extractor returned nothing for a video whose first notification had
\* been stored before.
C18_Witness ==
    /\ logged.kind = "notification"
    /\ logged.outcome = "enrich_failed"
    /\ ~logged.task.enriched
    /\ logged.task.extract_calls = 1
    /\ StoreInUse # <<>>

\* C19: the steps of one notification come in the order parse, lookup,
\* enrichment, insert.  A task reaches the extractor only with a parsed
\* video_id that the lookup has just reported as not stored; insert_video is
\* called only after the one extractor call returned data; a task whose
\* lookup finds the video_id ends with neither call made.
C19_ParseLookupEnrichInsert ==
    [][/\ \A t \in BagToSet(tasks') :
            (t.pc = "extracting" /\ CopiesIn(t, tasks') > CopiesIn(t, tasks))
                => (/\ parse_atom_feed(t.body) # NoneDict
                    /\ t.video_id = parse_atom_feed(t.body).video_id
                    /\ t.extract_calls = 1
                    /\ t.insert_calls = 0
                    /\ client.collection
                    /\ ~HasVideo(mongo_videos, t.video_id))
       /\ logged'.kind = "notification"
            => (/\ logged'.task.insert_calls <= 1
                /\ logged'.task.insert_calls = 1
                    => (logged'.task.extract_calls = 1 /\ logged'.task.enriched)
                /\ logged'.insert # NoCall => logged'.task.insert_calls = 1
                /\ logged'.outcome = "duplicate"
                    => (/\ HasVideo(mongo_videos, logged'.task.video_id)
                        /\ logged'.task.extract_calls = 0
                        /\ logged'.task.insert_calls = 0
                        /\ logged'.insert = NoCall)
                /\ (/\ logged'.task.video_id # None
                    /\ logged'.task.extract_calls = 0
                    /\ logged'.outcome # "error"
                    /\ HasVideo(mongo_videos, logged'.task.video_id))
                    => logged'.outcome = "duplicate")]_vars

\* A notification for a stored video ended at the lookup while another
\* task awaits the extractor.
C19_Witness ==
    /\ logged.kind = "notification"
    /\ logged.outcome = "duplicate"
    /\ logged.task.extract_calls = 0
    /\ \E t \in BagToSet(tasks) : t.pc = "extracting"

-----------------------------------------------------------------------------
(* Properties of rejected requests, checked under SpecReject *)

\* C17: a request that a handler rejects with 400 (bad handshake mode) or
\* 403 (verify token mismatch, bad signature) leaves the video store as it
\* was and enqueues no ingestion job.
C17_RejectedNoSideEffects ==
    [][(request'.method \in {"GET", "POST"} /\ response'.status \in {400, 403})
        => (/\ tasks' = tasks
            /\ mongo_videos' = mongo_videos
            /\ json_videos' = json_videos
            /\ json_io' = json_io
            /\ stored_ids' = stored_ids)]_vars

\* A notification with a bad signature has been rejected while a job waits
\* for the extractor and the store holds a video.
C17_Witness ==
    /\ request.method = "POST"
    /\ response.status = 403
    /\ parse_atom_feed(request.body) # NoneDict
    /\ \E t \in BagToSet(tasks) : t.pc = "extracting"
    /\ mongo_videos # <<>>

-----------------------------------------------------------------------------
(* Properties of the JSON file store, checked under SpecJson *)

\* Every record of before that after still holds a record for the same
\* video_id is that record, field for field.
SameWhereKept(before, after) ==
    \A i \in 1..Len(before) : \A j \in 1..Len(after) :
        after[j].video_id = before[i].video_id => after[j] = before[i]

\* C21: a stored record is never updated: in every step, a video_id that
\* is in the store before and after has the same record, whatever
\* notification, repeat insert or batch insert the step belongs to.
C21_RecordNeverUpdated ==
    [][/\ SameWhereKept(mongo_videos, mongo_videos')
       /\ SameWhereKept(json_videos, json_videos')]_vars

\* C28: JSONStorage.insert_video loses nothing: every record of videos.json
\* before a step is a record of videos.json after it, also when reading the
\* file failed and when two processes insert between load and save.
C28_JsonInsertKeepsRecords ==
    [][\A i \in 1..Len(json_videos) :
          \E j \in 1..Len(json_videos') : json_videos'[j] = json_videos[i]]_vars

-----------------------------------------------------------------------------
(* Properties of subscription calls beside notification handling, checked
   under SpecConcurrent *)

\* C23: subscription calls and notification handling touch disjoint state:
\* a step of a subscribe, unsubscribe or renew call leaves the video stores,
\* the job queue and the logged outcome as they were, and a step of the
\* notification handler or of a job leaves the subscription call as it was,
\* so the stores end as the jobs alone leave them.
C23_SubscriptionsAndStoreDisjoint ==
    [][/\ websub' # websub
            => (/\ mongo_videos' = mongo_videos
                /\ json_videos' = json_videos
                /\ json_io' = json_io
                /\ stored_ids' = stored_ids
                /\ tasks' = tasks
                /\ logged' = logged)
       /\ (tasks' # tasks \/ logged' # logged \/ mongo_videos' # mongo_videos)
            => (websub' = websub /\ parsed' = parsed)]_vars

\* A video has been stored while a renewal waits for the hub's answer to its
\* second request.
C23_Witness ==
    /\ websub.pc = "awaiting"
    /\ websub.op = "renew_subscriptions"
    /\ Len(websub.requests) = 2
    /\ logged.kind = "notification"
    /\ logged.outcome = "stored"
    /\ mongo_videos # <<>>

-----------------------------------------------------------------------------
(* Properties of enqueued jobs, checked under SpecLive *)

\* C24: jobs do not wait for one another.  In every state, whichever jobs
\* sit in their extractor call, each queued job can take its parse and
\* lookup step and each job at the extractor can take the step that follows
\* the extractor's return; the only thing that is waited for is the web
\* process's own file write, which can always complete.
C24_NoJobWaitsForAnother ==
    IF WebIdle
    THEN \A t \in BagToSet(tasks) :
            /\ t.pc = "queued" => ENABLED StartNotification(t, TRUE)
            /\ t.pc = "extracting"
                => ENABLED FinishNotification(t, GoodInfo(t.video_id), TRUE, TRUE)
    ELSE ENABLED SaveVideos("web", TRUE)

\* The job for v2 has been stored while the job for v1 is still in its
\* extractor call.
C24_Witness ==
    /\ \E t \in BagToSet(tasks) : t.pc = "extracting" /\ t.video_id = <<"v1">>
    /\ logged.kind = "notification"
    /\ logged.outcome = "stored"
    /\ logged.task.video_id = <<"v2">>
    /\ HasVideo(StoreInUse, <<"v2">>)

\* Jobs that have not logged their outcome yet.
Pending ==
    BagCardinality(tasks) + (IF json_io["web"] = NoIo THEN 0 ELSE 1)

\* C29: every enqueued job ends in exactly one terminal outcome: a step
\* logs an outcome exactly when one job ends, the outcome is one of the six
\* the task logs, no job comes back, and when every call returns no job is
\* left in the end.
C29_EveryJobEndsOnce ==
    /\ [][/\ Pending' <= Pending
          /\ logged'.kind = "notification" <=> Pending' = Pending - 1
          /\ logged'.kind = "notification"
                => logged'.outcome \in HandledOutcomes]_vars
    /\ <>[](Pending = 0)

\* Every job has ended, the last of them stored as the second video.
C29_Witness ==
    /\ Pending = 0
    /\ logged.kind = "notification"
    /\ logged.outcome = "stored"
    /\ Len(StoreInUse) = 2

-----------------------------------------------------------------------------
(* Properties of the records a notification inserts, checked under
   SpecIngest *)

\* A record with every required field and counts that are not negative.
Complete(record) ==
    /\ record.video_id # None
    /\ record.title # None
    /\ record.url # None
    /\ record.channel_id # None
    /\ record.channel_title # None
    /\ ParsesAsIsoDate(record.upload_date)
    /\ record.view_count >= 0
    /\ record.like_count >= 0

AllComplete(videos) == \A i \in 1..Len(videos) : Complete(videos[i])

\* C25: the task inserts complete records only: every record in a store,
\* every record handed to insert_video and every record waiting for the file
\* write is complete, and a task that ends without an insert_video call
\* leaves both stores as they were.
C25_OnlyCompleteRecordsInserted ==
    /\ [](/\ AllComplete(mongo_videos)
          /\ AllComplete(json_videos)
          /\ json_io["web"] # NoIo => Complete(json_io["web"].video_data)
          /\ (logged.kind = "notification" /\ logged.insert # NoCall)
                => Complete(logged.task.inserted))
    /\ [][(logged'.kind = "notification" /\ logged'.insert = NoCall)
            => (mongo_videos' = mongo_videos /\ json_videos' = json_videos)]_vars

\* The extractor answered without a channel id and the task ended in an
\* error, with no insert_video call and an empty store.
C25_Witness ==
    /\ logged.kind = "notification"
    /\ logged.task.enriched
    /\ logged.outcome = "error"
    /\ logged.insert = NoCall
    /\ logged.task.insert_calls = 0
    /\ StoreInUse = <<>>

\* C26: the record handed to insert_video carries the video_id that was
\* parsed from the notification body.
C26_InsertedUnderNotifiedId ==
    (logged.kind = "notification" /\ logged.insert # NoCall)
        => logged.task.inserted.video_id = logged.task.video_id

\* C27: on every backend, a task that ends for a parsed video_id held by
\* neither store has called the extractor once, and when the extractor
\* returned a complete record of that video the task ends with the video
\* stored.
C27_SameOnBothBackends ==
    [][(/\ logged'.kind = "notification"
        /\ logged'.task.video_id # None
        /\ ~HasVideo(mongo_videos, logged'.task.video_id)
        /\ ~HasVideo(json_videos, logged'.task.video_id))
        => /\ logged'.task.extract_calls = 1
           /\ (/\ logged'.task.enriched
               /\ logged'.task.inserted # NoneDict
               /\ logged'.task.inserted.video_id = logged'.task.video_id)
                => /\ logged'.outcome = "stored"
                   /\ HasVideo(StoreInUse', logged'.task.video_id)]_vars

-----------------------------------------------------------------------------
(* Properties of MongoDBClient(), checked under SpecClient *)

\* C30: the client is a singleton of its process: every call of
\* MongoDBClient() returns the one object that was created first, and once
\* an object is initialized neither its collection nor its use_json_fallback
\* changes again.
C30_SingletonConnectedOnce ==
    /\ [](/\ Len(client.objects) <= 1
          /\ logged.kind = "construction" => logged.returned = 1)
    /\ [][\A self \in 1..Len(client.objects) :
            client.objects[self].initialized
                => client'.objects[self] = client.objects[self]]_vars

=============================================================================
